---- MODULE Spec2Model ----
(***************************************************************************)
(* Session table and session-scoped key enumeration of the PKCS#11         *)
(* backend (pkcs11/src/backend/session.rs).                                *)
(*                                                                         *)
(* Strings are represented by their UTF-8 byte sequences (a Rust String    *)
(* is its bytes), Option<T> by a sequence of length 0 or 1, Result<T, E>   *)
(* by a record with an ok flag.                                            *)
(***************************************************************************)
EXTENDS Integers, Sequences, FiniteSets, TLC

VARIABLES
    sessions,             \* SessionManager.sessions
    next_session_handle,  \* SessionManager.next_session_handle
    issued,               \* history: the handles create_session returned, in order
    full_search,          \* history: the session and the handles of the latest search if
                          \* it succeeded without filter and the only operation since
                          \* was enum_final on that session
    returned,             \* history, kept in SpecReturned only: per open session, the
                          \* object handles its successful searches have returned
    last                  \* the operation that has just run, with its arguments, its
                          \* result, the remote calls it made and the handles it removed

vars == <<sessions, next_session_handle, issued, full_search, returned, last>>

---------------------------------------------------------------------------
(* Bounds of the model *)

\* create_session is enabled while the counter is at most this value
MaxSessionHandle == 2
\* object handles allocated over all open sessions
MaxObjects == 2
\* longest key list the Remote Key Service returns
MaxList == 2
\* longest attribute template given to the parser in SpecParse
MaxTemplateLen == 3

---------------------------------------------------------------------------
(* Constants of cryptoki_sys used by the code *)

CKR_OK == 0
CKR_ARGUMENTS_BAD == 7
CKR_DEVICE_ERROR == 48
CKR_OPERATION_ACTIVE == 144
CKS_RO_PUBLIC_SESSION == 0
CKA_LABEL == 3
CKA_ID == 258

---------------------------------------------------------------------------
(* Option and Result *)

None == <<>>
Some(v) == <<v>>
is_some(o) == Len(o) = 1
unwrap(o) == o[1]

Ok(v) == [ok |-> TRUE, val |-> v]
Err(e) == [ok |-> FALSE, err |-> e]

---------------------------------------------------------------------------
(* Input domains *)

SlotIds == {1, 2}
\* CK_FLAGS values given to create_session (CKF_SERIAL_SESSION)
FlagsIn == {4}

\* "a", "e-acute" (two bytes) and a truncated two-byte sequence
TextA == <<97>>
TextE == <<195, 169>>
BadBytes == <<195>>

\* key ids the Remote Key Service lists
Keys == {TextA, TextE}

\* an attribute kind the parser does not inspect (CKA_CLASS)
OtherAttrTypes == {0}

AttrValues == {None, Some(BadBytes), Some(TextA), Some(TextE)}

Attrs ==
    {[type |-> t, val |-> v] : t \in {CKA_ID, CKA_LABEL}, v \in AttrValues}
        \cup {[type |-> t, val |-> Some(BadBytes)] : t \in OtherAttrTypes}

RECURSIVE SeqsUpTo(_, _)
SeqsUpTo(S, n) ==
    IF n = 0 THEN {<<>>}
    ELSE LET shorter == SeqsUpTo(S, n - 1)
         IN shorter \cup {Append(q, x) : q \in {r \in shorter : Len(r) = n - 1}, x \in S}

\* Option<CkRawAttrTemplate> arguments of enum_init
TemplatesUpTo(n) == {None} \cup {Some(t) : t \in SeqsUpTo(Attrs, n)}

Attr(type, val) == [type |-> type, val |-> val]

\* the templates of the searches in Spec: absent, an ID, a LABEL, and an
\* undecodable ID after an attribute of another kind
SearchTemplates ==
    {None,
     Some(<<Attr(CKA_ID, Some(TextA))>>),
     Some(<<Attr(CKA_LABEL, Some(TextE))>>),
     Some(<<Attr(0, Some(BadBytes)), Attr(CKA_ID, Some(BadBytes))>>)}

---------------------------------------------------------------------------
(* Attribute Filter Parser *)

IsCont(b) == b >= 128 /\ b <= 191

\* validity check of String::from_utf8
RECURSIVE Utf8Valid(_)
Utf8Valid(bytes) ==
    IF bytes = <<>> THEN TRUE
    ELSE LET b1 == Head(bytes)
             n == Len(bytes)
         IN IF b1 <= 127 THEN Utf8Valid(Tail(bytes))
            ELSE IF b1 >= 194 /\ b1 <= 223
                 THEN n >= 2 /\ IsCont(bytes[2]) /\ Utf8Valid(SubSeq(bytes, 3, n))
            ELSE IF b1 >= 224 /\ b1 <= 239
                 THEN /\ n >= 3
                      /\ IsCont(bytes[2]) /\ IsCont(bytes[3])
                      /\ (b1 = 224 => bytes[2] >= 160)
                      /\ (b1 = 237 => bytes[2] <= 159)
                      /\ Utf8Valid(SubSeq(bytes, 4, n))
            ELSE IF b1 >= 240 /\ b1 <= 244
                 THEN /\ n >= 4
                      /\ IsCont(bytes[2]) /\ IsCont(bytes[3]) /\ IsCont(bytes[4])
                      /\ (b1 = 240 => bytes[2] >= 144)
                      /\ (b1 = 244 => bytes[2] <= 143)
                      /\ Utf8Valid(SubSeq(bytes, 5, n))
            ELSE FALSE

\* faulty variant: undecodable bytes are taken as they are
parse_str_from_attr_unchecked(attr) ==
    IF ~is_some(attr.val) THEN Err(CKR_ARGUMENTS_BAD)
    ELSE Ok(unwrap(attr.val))

parse_str_from_attr(attr) ==
    IF ~is_some(attr.val) THEN Err(CKR_ARGUMENTS_BAD)
    ELSE IF Utf8Valid(unwrap(attr.val)) THEN Ok(unwrap(attr.val))
    ELSE Err(CKR_ARGUMENTS_BAD)

\* faulty variant: the scan goes on after an ID entry
RECURSIVE find_key_id_loop_no_break(_, _, _)
find_key_id_loop_no_break(template, i, key_id) ==
    IF i > Len(template) THEN Ok(key_id)
    ELSE LET attr == template[i]
         IN IF attr.type = CKA_ID \/ attr.type = CKA_LABEL
            THEN LET parsed == parse_str_from_attr(attr)
                 IN IF parsed.ok
                    THEN find_key_id_loop_no_break(template, i + 1, Some(parsed.val))
                    ELSE Err(parsed.err)
            ELSE find_key_id_loop_no_break(template, i + 1, key_id)

\* the for loop of find_key_id from entry i on, key_id being the candidate so far
RECURSIVE find_key_id_loop(_, _, _)
find_key_id_loop(template, i, key_id) ==
    IF i > Len(template) THEN Ok(key_id)
    ELSE LET attr == template[i]
         IN IF attr.type = CKA_ID
            THEN LET parsed == parse_str_from_attr(attr)
                 IN IF parsed.ok THEN Ok(Some(parsed.val)) ELSE Err(parsed.err)
            ELSE IF attr.type = CKA_LABEL
            THEN LET parsed == parse_str_from_attr(attr)
                 IN IF parsed.ok
                    THEN find_key_id_loop(template, i + 1, Some(parsed.val))
                    ELSE Err(parsed.err)
            ELSE find_key_id_loop(template, i + 1, key_id)

find_key_id(template) ==
    IF is_some(template) THEN find_key_id_loop(unwrap(template), 1, None)
    ELSE Ok(None)

---------------------------------------------------------------------------
(* Object Cache (backend::db, outside this file) *)

Db_new == [objects |-> <<>>, next_handle |-> 1]

Db_clear(db) == [db EXCEPT !.objects = <<>>]

\* the (handle, object) pairs in cache order
Db_enumerate(db) == db.objects

Db_add_object(db, object) ==
    [db |-> [objects |-> Append(db.objects, [handle |-> db.next_handle, object |-> object]),
             next_handle |-> db.next_handle + 1],
     handle |-> db.next_handle]

\* the objects cached under handle h
Db_lookup(db, h) ==
    {db.objects[i].object : i \in {j \in 1..Len(db.objects) : db.objects[j].handle = h}}

Object_from_key_data(key_data, key_id) == [id |-> key_id, key_data |-> key_data]

---------------------------------------------------------------------------
(* Remote Key Service: the outcome of the calls one operation makes.       *)
(* env.list is the result of keys_get, the env.fail_at-th keys_key_id_get  *)
(* of the operation fails (0: none fails).                                 *)

RemoteRecord(key_id) == [key |-> key_id]

\* a key list names every key at most once
NoRepeat(l) == \A i, j \in 1..Len(l) : l[i] = l[j] => i = j

ListResults ==
    {Err("remote")} \cup {Ok(l) : l \in {k \in SeqsUpTo(Keys, MaxList) : NoRepeat(k)}}

Envs ==
    {[list |-> l, fail_at |-> f] : l \in ListResults, f \in 0..MaxList}

\* the outcomes that differ in the calls a search makes: none when the parser
\* rejects the template or a search is active, one get for a filter, else the
\* list and one get per listed key
EnvsOf(searching, parsed) ==
    IF searching \/ ~parsed.ok THEN {[list |-> Err("remote"), fail_at |-> 0]}
    ELSE IF parsed.val # <<>> THEN {[list |-> Err("remote"), fail_at |-> f] : f \in 0..1}
    ELSE {env \in Envs : env.fail_at <= (IF env.list.ok THEN Len(env.list.val) ELSE 0)}

keys_get(env) == env.list

keys_key_id_get(env, n, key_id) ==
    IF n = env.fail_at THEN Err("remote") ELSE Ok(RemoteRecord(key_id))

\* log entries of the remote calls an operation made
CallList(res) ==
    [api |-> "keys_get", key_id |-> None, ok |-> res.ok,
     keys |-> IF res.ok THEN res.val ELSE <<>>]
CallGet(key_id, res) ==
    [api |-> "keys_key_id_get", key_id |-> Some(key_id), ok |-> res.ok, keys |-> <<>>]

---------------------------------------------------------------------------
(* Session *)

Session_new(slot_id, slot, flags) ==
    [slot |-> slot,
     slot_id |-> slot_id,
     flags |-> flags,
     state |-> CKS_RO_PUBLIC_SESSION,
     fetched_all_keys |-> FALSE,
     db |-> Db_new,
     device_error |-> CKR_OK,
     sign_ctx |-> None,
     encrypt_ctx |-> None,
     decrypt_ctx |-> None,
     enum_ctx |-> None]

\* The methods below work on a call state: the session, the remote calls made
\* so far in the operation, and the result of the method.

\* faulty variant: the handle returned is the one after the object's
fetch_key_next_handle(self, calls, env, key_id) ==
    LET n == Cardinality({i \in 1..Len(calls) : calls[i].api = "keys_key_id_get"}) + 1
        key_data == keys_key_id_get(env, n, key_id)
        calls2 == Append(calls, CallGet(key_id, key_data))
    IN IF ~key_data.ok
       THEN [self |-> self, calls |-> calls2, res |-> Err(CKR_DEVICE_ERROR)]
       ELSE LET object == Object_from_key_data(key_data.val, key_id)
                added == Db_add_object(self.db, object)
            IN [self |-> [self EXCEPT !.db = added.db],
                calls |-> calls2,
                res |-> Ok(<<added.db.next_handle, object>>)]

fetch_key(self, calls, env, key_id) ==
    LET n == Cardinality({i \in 1..Len(calls) : calls[i].api = "keys_key_id_get"}) + 1
        key_data == keys_key_id_get(env, n, key_id)
        calls2 == Append(calls, CallGet(key_id, key_data))
    IN IF ~key_data.ok
       THEN [self |-> self, calls |-> calls2, res |-> Err(CKR_DEVICE_ERROR)]
       ELSE LET object == Object_from_key_data(key_data.val, key_id)
                added == Db_add_object(self.db, object)
            IN [self |-> [self EXCEPT !.db = added.db],
                calls |-> calls2,
                res |-> Ok(<<added.handle, object>>)]

\* faulty variant: each handle is put in front of the result
RECURSIVE fetch_all_keys_loop_front(_, _, _, _, _, _)
fetch_all_keys_loop_front(self, calls, env, keys, i, handles) ==
    IF i > Len(keys) THEN [self |-> self, calls |-> calls, res |-> Ok(handles)]
    ELSE LET fetched == fetch_key(self, calls, env, keys[i])
         IN IF ~fetched.res.ok
            THEN [self |-> fetched.self, calls |-> fetched.calls, res |-> Err(fetched.res.err)]
            ELSE fetch_all_keys_loop_front(fetched.self, fetched.calls, env, keys, i + 1,
                                           <<fetched.res.val[1]>> \o handles)

\* faulty variant: a key whose fetch fails is left out
RECURSIVE fetch_all_keys_loop_skip(_, _, _, _, _, _)
fetch_all_keys_loop_skip(self, calls, env, keys, i, handles) ==
    IF i > Len(keys) THEN [self |-> self, calls |-> calls, res |-> Ok(handles)]
    ELSE LET fetched == fetch_key(self, calls, env, keys[i])
         IN IF ~fetched.res.ok
            THEN fetch_all_keys_loop_skip(fetched.self, fetched.calls, env, keys, i + 1, handles)
            ELSE fetch_all_keys_loop_skip(fetched.self, fetched.calls, env, keys, i + 1,
                                          Append(handles, fetched.res.val[1]))

\* the for loop of fetch_all_keys from the i-th listed key on
RECURSIVE fetch_all_keys_loop(_, _, _, _, _, _)
fetch_all_keys_loop(self, calls, env, keys, i, handles) ==
    IF i > Len(keys) THEN [self |-> self, calls |-> calls, res |-> Ok(handles)]
    ELSE LET fetched == fetch_key(self, calls, env, keys[i])
         IN IF ~fetched.res.ok
            THEN [self |-> fetched.self, calls |-> fetched.calls, res |-> Err(fetched.res.err)]
            ELSE fetch_all_keys_loop(fetched.self, fetched.calls, env, keys, i + 1,
                                     Append(handles, fetched.res.val[1]))

\* faulty variant: the cache is cleared after the fetch
fetch_all_keys_clear_last(self, calls, env) ==
    IF self.fetched_all_keys
    THEN [self |-> self,
          calls |-> calls,
          res |-> Ok([i \in 1..Len(Db_enumerate(self.db)) |-> Db_enumerate(self.db)[i].handle])]
    ELSE LET keys == keys_get(env)
             calls2 == Append(calls, CallList(keys))
         IN IF ~keys.ok
            THEN [self |-> [self EXCEPT !.db = Db_clear(self.db)], calls |-> calls2,
                  res |-> Err(CKR_DEVICE_ERROR)]
            ELSE LET fetched == fetch_all_keys_loop(self, calls2, env, keys.val, 1, <<>>)
                 IN [fetched EXCEPT !.self.db = Db_clear(fetched.self.db)]

\* faulty variant: the cache is not cleared before the fetch
fetch_all_keys_no_clear(self, calls, env) ==
    IF self.fetched_all_keys
    THEN [self |-> self,
          calls |-> calls,
          res |-> Ok([i \in 1..Len(Db_enumerate(self.db)) |-> Db_enumerate(self.db)[i].handle])]
    ELSE LET keys == keys_get(env)
             calls2 == Append(calls, CallList(keys))
         IN IF ~keys.ok
            THEN [self |-> self, calls |-> calls2, res |-> Err(CKR_DEVICE_ERROR)]
            ELSE fetch_all_keys_loop(self, calls2, env, keys.val, 1, <<>>)

fetch_all_keys(self, calls, env) ==
    IF self.fetched_all_keys
    THEN [self |-> self,
          calls |-> calls,
          res |-> Ok([i \in 1..Len(Db_enumerate(self.db)) |-> Db_enumerate(self.db)[i].handle])]
    ELSE LET cleared == [self EXCEPT !.db = Db_clear(self.db)]
             keys == keys_get(env)
             calls2 == Append(calls, CallList(keys))
         IN IF ~keys.ok
            THEN [self |-> cleared, calls |-> calls2, res |-> Err(CKR_DEVICE_ERROR)]
            ELSE fetch_all_keys_loop(cleared, calls2, env, keys.val, 1, <<>>)

find_key(self, calls, env, key_id) ==
    IF is_some(key_id)
    THEN LET fetched == fetch_key(self, calls, env, unwrap(key_id))
         IN IF ~fetched.res.ok
            THEN [self |-> fetched.self, calls |-> fetched.calls, res |-> Err(fetched.res.err)]
            ELSE [self |-> fetched.self, calls |-> fetched.calls, res |-> Ok(<<fetched.res.val[1]>>)]
    ELSE fetch_all_keys(self, calls, env)

\* the contexts of the other operation classes have no field
SignCtx == "SignCtx"
EncryptCtx == "EncryptCtx"
DecryptCtx == "DecryptCtx"

EnumCtx(handles) == [handles |-> handles]

\* faulty variant: an active Search Context is not checked
Session_enum_init_unguarded(self, env, template) ==
    LET key_id == find_key_id(template)
    IN IF ~key_id.ok
       THEN [self |-> self, calls |-> <<>>, rv |-> key_id.err, parsed |-> Some(key_id)]
       ELSE LET handles == find_key(self, <<>>, env, key_id.val)
            IN IF ~handles.res.ok
               THEN [self |-> handles.self, calls |-> handles.calls,
                     rv |-> handles.res.err, parsed |-> Some(key_id)]
               ELSE [self |-> [handles.self EXCEPT
                                   !.enum_ctx = Some(EnumCtx(handles.res.val))],
                     calls |-> handles.calls, rv |-> CKR_OK, parsed |-> Some(key_id)]

\* rv is the CK_RV returned, parsed the result of the parser when it ran
\* faulty variant: a search is refused while a signature is in progress
Session_enum_init_exclusive(self, env, template) ==
    IF is_some(self.enum_ctx) \/ is_some(self.sign_ctx)
    THEN [self |-> self, calls |-> <<>>, rv |-> CKR_OPERATION_ACTIVE, parsed |-> None]
    ELSE LET key_id == find_key_id(template)
         IN IF ~key_id.ok
            THEN [self |-> self, calls |-> <<>>, rv |-> key_id.err, parsed |-> Some(key_id)]
            ELSE LET handles == find_key(self, <<>>, env, key_id.val)
                 IN IF ~handles.res.ok
                    THEN [self |-> handles.self, calls |-> handles.calls,
                          rv |-> handles.res.err, parsed |-> Some(key_id)]
                    ELSE [self |-> [handles.self EXCEPT
                                        !.enum_ctx = Some(EnumCtx(handles.res.val))],
                          calls |-> handles.calls, rv |-> CKR_OK, parsed |-> Some(key_id)]

Session_enum_init(self, env, template) ==
    IF is_some(self.enum_ctx)
    THEN [self |-> self, calls |-> <<>>, rv |-> CKR_OPERATION_ACTIVE, parsed |-> None]
    ELSE LET key_id == find_key_id(template)
         IN IF ~key_id.ok
            THEN [self |-> self, calls |-> <<>>, rv |-> key_id.err, parsed |-> Some(key_id)]
            ELSE LET handles == find_key(self, <<>>, env, key_id.val)
                 IN IF ~handles.res.ok
                    THEN [self |-> handles.self, calls |-> handles.calls,
                          rv |-> handles.res.err, parsed |-> Some(key_id)]
                    ELSE [self |-> [handles.self EXCEPT
                                        !.enum_ctx = Some(EnumCtx(handles.res.val))],
                          calls |-> handles.calls, rv |-> CKR_OK, parsed |-> Some(key_id)]

---------------------------------------------------------------------------
(* SessionManager *)

\* the slot configuration the caller passes for a slot id
SlotConfig(slot_id) == <<"api_config", slot_id>>

\* HashMap::insert, HashMap::remove
MapInsert(map, k, v) == [x \in DOMAIN map \cup {k} |-> IF x = k THEN v ELSE map[x]]
MapRemove(map, ks) == [x \in DOMAIN map \ ks |-> map[x]]

SessionManager_new == [sessions |-> <<>>, next_session_handle |-> 1]

\* faulty variant: the counter is not advanced
SessionManager_create_session_no_increment(self, slot_id, slot, flags) ==
    LET session == Session_new(slot_id, slot, flags)
        handle == self.next_session_handle
    IN [self |-> [sessions |-> MapInsert(self.sessions, handle, session),
                  next_session_handle |-> self.next_session_handle],
        handle |-> handle]

SessionManager_create_session(self, slot_id, slot, flags) ==
    LET session == Session_new(slot_id, slot, flags)
        handle == self.next_session_handle
    IN [self |-> [sessions |-> MapInsert(self.sessions, handle, session),
                  next_session_handle |-> self.next_session_handle + 1],
        handle |-> handle]

SessionManager_get_session(self, handle) ==
    IF handle \in DOMAIN self.sessions THEN Some(self.sessions[handle]) ELSE None

\* faulty variant: every session up to the handle is removed
SessionManager_delete_session_upto(self, handle) ==
    [self |-> [self EXCEPT !.sessions =
                   MapRemove(self.sessions, {h \in DOMAIN self.sessions : h <= handle})],
     removed |-> IF handle \in DOMAIN self.sessions
                 THEN Some(<<handle, self.sessions[handle]>>)
                 ELSE None]

\* faulty variant: the handle of the removed session is given out again
SessionManager_delete_session_rewind(self, handle) ==
    [self |-> [sessions |-> MapRemove(self.sessions, {handle}),
               next_session_handle |-> IF handle \in DOMAIN self.sessions
                                       THEN handle ELSE self.next_session_handle],
     removed |-> IF handle \in DOMAIN self.sessions
                 THEN Some(<<handle, self.sessions[handle]>>)
                 ELSE None]

SessionManager_delete_session(self, handle) ==
    [self |-> [self EXCEPT !.sessions = MapRemove(self.sessions, {handle})],
     removed |-> IF handle \in DOMAIN self.sessions
                 THEN Some(<<handle, self.sessions[handle]>>)
                 ELSE None]

\* faulty variant: only the first session found for the slot is removed
SessionManager_delete_all_slot_sessions_first(self, slot_id) ==
    LET deleted_sessions ==
            {handle \in DOMAIN self.sessions : self.sessions[handle].slot_id = slot_id}
        first == {handle \in deleted_sessions : \A other \in deleted_sessions : handle <= other}
    IN [self EXCEPT !.sessions = MapRemove(self.sessions, first)]

SessionManager_delete_all_slot_sessions(self, slot_id) ==
    LET deleted_sessions ==
            {handle \in DOMAIN self.sessions : self.sessions[handle].slot_id = slot_id}
    IN [self EXCEPT !.sessions = MapRemove(self.sessions, deleted_sessions)]

\* the SessionManager of the current state
manager == [sessions |-> sessions, next_session_handle |-> next_session_handle]

\* object handles allocated in the open sessions of a table
RECURSIVE Allocated(_)
Allocated(map) ==
    IF DOMAIN map = {} THEN 0
    ELSE LET h == CHOOSE x \in DOMAIN map : TRUE
         IN (map[h].db.next_handle - 1) + Allocated(MapRemove(map, {h}))

\* no call in progress: the caller holds no result
NoOp ==
    [op |-> "idle", handle |-> 0, slot_id |-> 0, template |-> None, rv |-> CKR_OK,
     removed |-> None, deleted |-> {}, calls |-> <<>>, parsed |-> None]

Init ==
    /\ sessions = SessionManager_new.sessions
    /\ next_session_handle = SessionManager_new.next_session_handle
    /\ issued = <<>>
    /\ full_search = None
    /\ returned = <<>>
    /\ last = NoOp

create_session(slot_id, slot, flags) ==
    LET created == SessionManager_create_session(manager, slot_id, slot, flags)
    IN /\ last = NoOp
       /\ next_session_handle <= MaxSessionHandle
       /\ sessions' = created.self.sessions
       /\ next_session_handle' = created.self.next_session_handle
       /\ issued' = Append(issued, created.handle)
       /\ full_search' = None
       /\ last' = [NoOp EXCEPT !.op = "create_session", !.handle = created.handle,
                               !.slot_id = slot_id]

delete_session(handle) ==
    LET deleted == SessionManager_delete_session(manager, handle)
    IN /\ last = NoOp
       /\ sessions' = deleted.self.sessions
       /\ next_session_handle' = deleted.self.next_session_handle
       /\ full_search' = None
       /\ last' = [NoOp EXCEPT !.op = "delete_session", !.handle = handle,
                               !.removed = deleted.removed,
                               !.deleted = DOMAIN sessions \ DOMAIN deleted.self.sessions]
       /\ UNCHANGED issued

delete_all_slot_sessions(slot_id) ==
    LET deleted == SessionManager_delete_all_slot_sessions(manager, slot_id)
    IN /\ last = NoOp
       /\ sessions' = deleted.sessions
       /\ next_session_handle' = deleted.next_session_handle
       /\ full_search' = None
       /\ last' = [NoOp EXCEPT !.op = "delete_all_slot_sessions", !.slot_id = slot_id,
                               !.deleted = DOMAIN sessions \ DOMAIN deleted.sessions]
       /\ UNCHANGED issued

\* faulty variant: the result is stored in every session of the slot
enum_init_per_slot(handle, template, env) ==
    /\ last = NoOp
    /\ handle \in DOMAIN sessions
    /\ LET done == Session_enum_init(sessions[handle], env, template)
       IN /\ sessions' = [k \in DOMAIN sessions |->
                             IF sessions[k].slot_id = sessions[handle].slot_id
                             THEN done.self ELSE sessions[k]]
          /\ full_search' = IF done.rv = CKR_OK /\ done.parsed = Some(Ok(None))
                             THEN Some([handle |-> handle,
                                        handles |-> unwrap(done.self.enum_ctx).handles])
                             ELSE None
          /\ last' = [NoOp EXCEPT !.op = "enum_init", !.handle = handle,
                                  !.template = template, !.rv = done.rv,
                                  !.calls = done.calls, !.parsed = done.parsed]
    /\ Allocated(sessions') <= MaxObjects
    /\ UNCHANGED <<next_session_handle, issued>>

\* Session::enum_init on the session get_session_mut(handle) finds
enum_init(handle, template, env) ==
    /\ last = NoOp
    /\ handle \in DOMAIN sessions
    /\ LET done == Session_enum_init(sessions[handle], env, template)
       IN /\ sessions' = [sessions EXCEPT ![handle] = done.self]
          /\ full_search' = IF done.rv = CKR_OK /\ done.parsed = Some(Ok(None))
                             THEN Some([handle |-> handle,
                                        handles |-> unwrap(done.self.enum_ctx).handles])
                             ELSE None
          /\ last' = [NoOp EXCEPT !.op = "enum_init", !.handle = handle,
                                  !.template = template, !.rv = done.rv,
                                  !.calls = done.calls, !.parsed = done.parsed]
    /\ Allocated(sessions') <= MaxObjects
    /\ UNCHANGED <<next_session_handle, issued>>

\* the caller ends the search and drops the Search Context
enum_final(handle) ==
    /\ last = NoOp
    /\ handle \in DOMAIN sessions
    /\ is_some(sessions[handle].enum_ctx)
    /\ sessions' = [sessions EXCEPT ![handle].enum_ctx = None]
    /\ full_search' = IF is_some(full_search) /\ unwrap(full_search).handle = handle
                       THEN full_search ELSE None
    /\ last' = [NoOp EXCEPT !.op = "enum_final", !.handle = handle]
    /\ UNCHANGED <<next_session_handle, issued>>

\* the caller starts an operation of another class on the session
sign_init(handle) ==
    /\ last = NoOp
    /\ handle \in DOMAIN sessions
    /\ sessions[handle].sign_ctx = None
    /\ sessions' = [sessions EXCEPT ![handle].sign_ctx = Some(SignCtx)]
    /\ full_search' = None
    /\ last' = [NoOp EXCEPT !.op = "sign_init", !.handle = handle]
    /\ UNCHANGED <<next_session_handle, issued>>

encrypt_init(handle) ==
    /\ last = NoOp
    /\ handle \in DOMAIN sessions
    /\ sessions[handle].encrypt_ctx = None
    /\ sessions' = [sessions EXCEPT ![handle].encrypt_ctx = Some(EncryptCtx)]
    /\ full_search' = None
    /\ last' = [NoOp EXCEPT !.op = "encrypt_init", !.handle = handle]
    /\ UNCHANGED <<next_session_handle, issued>>

decrypt_init(handle) ==
    /\ last = NoOp
    /\ handle \in DOMAIN sessions
    /\ sessions[handle].decrypt_ctx = None
    /\ sessions' = [sessions EXCEPT ![handle].decrypt_ctx = Some(DecryptCtx)]
    /\ full_search' = None
    /\ last' = [NoOp EXCEPT !.op = "decrypt_init", !.handle = handle]
    /\ UNCHANGED <<next_session_handle, issued>>

\* the call returns: the caller has taken the result of the operation
return ==
    /\ last # NoOp
    /\ last' = NoOp
    /\ UNCHANGED <<sessions, next_session_handle, issued, full_search, returned>>

Handles == 1..(MaxSessionHandle + 1)

\* the templates given to the parser in SpecParse
ParseTemplates == TemplatesUpTo(MaxTemplateLen)

Next ==
    \/ /\ last = NoOp
       /\ \E slot_id \in SlotIds, flags \in FlagsIn :
              create_session(slot_id, SlotConfig(slot_id), flags)
       /\ UNCHANGED returned
    \/ /\ last = NoOp
       /\ \E handle \in Handles : delete_session(handle)
       /\ UNCHANGED returned
    \/ /\ last = NoOp
       /\ \E slot_id \in SlotIds : delete_all_slot_sessions(slot_id)
       /\ UNCHANGED returned
    \/ /\ last = NoOp
       /\ \E handle \in DOMAIN sessions, template \in SearchTemplates :
              \E env \in EnvsOf(is_some(sessions[handle].enum_ctx), find_key_id(template)) :
                  enum_init(handle, template, env)
       /\ UNCHANGED returned
    \/ /\ last = NoOp
       /\ \E handle \in Handles : enum_final(handle)
       /\ UNCHANGED returned
    \/ return

Spec == Init /\ [][Next]_vars

\* The parser on every template: the searches of the first session while it is
\* as created.
IsNew(session) == session = Session_new(session.slot_id, session.slot, session.flags)

NextParse ==
    \/ /\ last = NoOp
       /\ next_session_handle = 1
       /\ \E slot_id \in SlotIds, flags \in FlagsIn :
              create_session(slot_id, SlotConfig(slot_id), flags)
       /\ UNCHANGED returned
    \/ /\ last = NoOp
       /\ \E handle \in {h \in DOMAIN sessions : IsNew(sessions[h])}, template \in ParseTemplates :
              \E env \in EnvsOf(is_some(sessions[handle].enum_ctx), find_key_id(template)) :
                  enum_init(handle, template, env)
       /\ UNCHANGED returned
    \/ return

SpecParse == Init /\ [][NextParse]_vars

\* The operations of Spec with the history of the handles handed to the
\* caller: a successful enum_init adds the handles of its Search Context to
\* those of its session, a session that is closed loses its history.
KeepReturned ==
    returned' =
        [h \in DOMAIN sessions' |->
            (IF h \in DOMAIN returned THEN returned[h] ELSE {})
                \cup (IF last'.op = "enum_init" /\ last'.handle = h /\ last'.rv = CKR_OK
                      THEN {unwrap(sessions'[h].enum_ctx).handles[i] :
                                i \in 1..Len(unwrap(sessions'[h].enum_ctx).handles)}
                      ELSE {})]

NextReturned ==
    \/ /\ last = NoOp
       /\ \E slot_id \in SlotIds, flags \in FlagsIn :
              create_session(slot_id, SlotConfig(slot_id), flags)
       /\ KeepReturned
    \/ /\ last = NoOp
       /\ \E handle \in Handles : delete_session(handle)
       /\ KeepReturned
    \/ /\ last = NoOp
       /\ \E slot_id \in SlotIds : delete_all_slot_sessions(slot_id)
       /\ KeepReturned
    \/ /\ last = NoOp
       /\ \E handle \in DOMAIN sessions, template \in SearchTemplates :
              \E env \in EnvsOf(is_some(sessions[handle].enum_ctx), find_key_id(template)) :
                  enum_init(handle, template, env)
       /\ KeepReturned
    \/ /\ last = NoOp
       /\ \E handle \in Handles : enum_final(handle)
       /\ KeepReturned
    \/ return

SpecReturned == Init /\ [][NextReturned]_vars

\* The searches of the first session while operations of the other classes
\* are started on it.
NextCtx ==
    \/ /\ last = NoOp
       /\ next_session_handle = 1
       /\ \E slot_id \in SlotIds, flags \in FlagsIn :
              create_session(slot_id, SlotConfig(slot_id), flags)
       /\ UNCHANGED returned
    \/ /\ last = NoOp
       /\ \E handle \in DOMAIN sessions : sign_init(handle)
       /\ UNCHANGED returned
    \/ /\ last = NoOp
       /\ \E handle \in DOMAIN sessions : encrypt_init(handle)
       /\ UNCHANGED returned
    \/ /\ last = NoOp
       /\ \E handle \in DOMAIN sessions : decrypt_init(handle)
       /\ UNCHANGED returned
    \/ /\ last = NoOp
       /\ \E handle \in DOMAIN sessions, template \in SearchTemplates :
              \E env \in EnvsOf(is_some(sessions[handle].enum_ctx), find_key_id(template)) :
                  enum_init(handle, template, env)
       /\ UNCHANGED returned
    \/ /\ last = NoOp
       /\ \E handle \in DOMAIN sessions : enum_final(handle)
       /\ UNCHANGED returned
    \/ return

SpecCtx == Init /\ [][NextCtx]_vars

---------------------------------------------------------------------------
(* Properties *)

\* the step is a call of op
StepOf(op) == last = NoOp /\ last'.op = op

\* C1: the handles create_session returns are strictly increasing from 1, so
\* none is returned twice, whatever was deleted in between.
C1_HandlesStrictlyIncreasing ==
    /\ Len(issued) >= 1 => issued[1] = 1
    /\ \A i, j \in 1..Len(issued) : i < j => issued[i] < issued[j]
    /\ last.op = "create_session" => last.handle = issued[Len(issued)]

\* a session is created after the first one was deleted
C1_Witness ==
    /\ last.op = "create_session"
    /\ Len(issued) >= 2
    /\ issued[1] \notin DOMAIN sessions

\* C2: enum_init on a session with a Search Context returns OperationActive,
\* calls the remote service never and leaves the context, the cache and the
\* completeness flag as they were.
C2_ActiveSearchRejected ==
    [][(StepOf("enum_init") /\ is_some(sessions[last'.handle].enum_ctx))
          => /\ last'.rv = CKR_OPERATION_ACTIVE
             /\ last'.calls = <<>>
             /\ sessions'[last'.handle].enum_ctx = sessions[last'.handle].enum_ctx
             /\ sessions'[last'.handle].db = sessions[last'.handle].db
             /\ sessions'[last'.handle].fetched_all_keys
                    = sessions[last'.handle].fetched_all_keys]_vars

\* a search with a malformed template was rejected on a session whose context
\* holds a handle
C2_Witness ==
    /\ last.op = "enum_init"
    /\ last.rv = CKR_OPERATION_ACTIVE
    /\ is_some(last.template) /\ ~find_key_id(last.template).ok
    /\ Len(unwrap(sessions[last.handle].enum_ctx).handles) >= 1

\* C3: delete_session(h) removes the session h and nothing else: h is absent
\* afterwards, every other session is kept as it was, the counter is kept; if
\* h is not in the table nothing is returned and the table is unchanged.
C3_DeleteExactlyOne ==
    [][StepOf("delete_session")
          => LET h == last'.handle
             IN /\ SessionManager_get_session(manager', h) = None
                /\ DOMAIN sessions' = DOMAIN sessions \ {h}
                /\ \A k \in DOMAIN sessions \ {h} : sessions'[k] = sessions[k]
                /\ next_session_handle' = next_session_handle
                /\ h \in DOMAIN sessions => last'.removed = Some(<<h, sessions[h]>>)
                /\ h \notin DOMAIN sessions
                       => last'.removed = None /\ sessions' = sessions]_vars

\* a session was deleted while another one, with a search in progress, stays
C3_Witness ==
    /\ last.op = "delete_session"
    /\ last.deleted = {last.handle}
    /\ \E k \in DOMAIN sessions : is_some(sessions[k].enum_ctx)

\* C4: after delete_all_slot_sessions(S) no session of slot S is left and
\* every session of another slot is kept as it was.
C4_DeleteAllOfSlot ==
    [][StepOf("delete_all_slot_sessions")
          => /\ \A k \in DOMAIN sessions' : sessions'[k].slot_id # last'.slot_id
             /\ \A k \in DOMAIN sessions :
                    sessions[k].slot_id # last'.slot_id
                        => k \in DOMAIN sessions' /\ sessions'[k] = sessions[k]
             /\ DOMAIN sessions' \subseteq DOMAIN sessions]_vars

\* two sessions of the slot were removed
C4_Witness ==
    /\ last.op = "delete_all_slot_sessions"
    /\ Cardinality(last.deleted) >= 2

\* C5: enum_init with a key id k as filter makes one remote get for k; if it
\* succeeds the call returns OK and the Search Context is one handle that maps
\* to the object built from k's record, if it fails the call returns
\* DeviceError, no context is created and the cache is as before.
C5_FilteredSearch ==
    [][(StepOf("enum_init") /\ is_some(last'.parsed) /\ unwrap(last'.parsed).ok
            /\ is_some(unwrap(last'.parsed).val))
          => LET k == unwrap(unwrap(last'.parsed).val)
                 before == sessions[last'.handle]
                 after == sessions'[last'.handle]
             IN /\ Len(last'.calls) = 1
                /\ last'.calls[1].api = "keys_key_id_get"
                /\ last'.calls[1].key_id = Some(k)
                /\ last'.calls[1].ok
                       => /\ last'.rv = CKR_OK
                          /\ is_some(after.enum_ctx)
                          /\ Len(unwrap(after.enum_ctx).handles) = 1
                          /\ Db_lookup(after.db, unwrap(after.enum_ctx).handles[1])
                                 = {Object_from_key_data(RemoteRecord(k), k)}
                /\ ~last'.calls[1].ok
                       => /\ last'.rv = CKR_DEVICE_ERROR
                          /\ after.enum_ctx = None
                          /\ after.db = before.db]_vars

\* a filtered search succeeded on a session that had an object cached already
C5_Witness ==
    /\ last.op = "enum_init"
    /\ last.rv = CKR_OK
    /\ last.parsed = Some(Ok(Some(TextA)))
    /\ Len(sessions[last.handle].db.objects) >= 2

\* a successful search without filter that fetched the key list
FullFetchDone ==
    /\ last.op = "enum_init"
    /\ last.rv = CKR_OK
    /\ last.parsed = Some(Ok(None))
    /\ last.calls # <<>>

\* C6: a successful search without filter on an incomplete cache, the remote
\* list being k1..kn, creates a context of n handles, the i-th of which maps to
\* the object of ki.
C6_FullSearchInListOrder ==
    FullFetchDone
        => LET keys == last.calls[1].keys
               self == sessions[last.handle]
               handles == unwrap(self.enum_ctx).handles
           IN /\ last.calls[1].api = "keys_get"
              /\ is_some(self.enum_ctx)
              /\ Len(handles) = Len(keys)
              /\ \A i \in 1..Len(keys) :
                     Db_lookup(self.db, handles[i])
                         = {Object_from_key_data(RemoteRecord(keys[i]), keys[i])}

\* two keys were listed and fetched
C6_Witness ==
    /\ FullFetchDone
    /\ Len(last.calls[1].keys) = 2

\* C7: after a successful full fetch the completeness flag of the session is
\* true.
C7_FlagSetByFullFetch ==
    FullFetchDone => sessions[last.handle].fetched_all_keys

\* C8: a second search without filter, right after a successful one whose
\* context was discarded, calls the remote service never, leaves the cache as
\* it was and produces the handles of the first.
C8_SecondFullSearchFromCache ==
    [][(StepOf("enum_init") /\ is_some(full_search)
            /\ unwrap(full_search).handle = last'.handle
            /\ last'.parsed = Some(Ok(None)))
          => /\ last'.calls = <<>>
             /\ sessions'[last'.handle].db = sessions[last'.handle].db
             /\ last'.rv = CKR_OK
             /\ sessions'[last'.handle].enum_ctx
                    = Some(EnumCtx(unwrap(full_search).handles))]_vars

\* Attribute entries as the claims about the parser speak of them
IsId(attr) == attr.type = CKA_ID
IsLabel(attr) == attr.type = CKA_LABEL
Decodable(attr) == attr.val \in {Some(TextA), Some(TextE)}
Undecodable(attr) == attr.val \in {None, Some(BadBytes)}

\* index of the first ID entry of a template that has one
FirstId(t) == CHOOSE i \in 1..Len(t) : IsId(t[i]) /\ \A j \in 1..(i - 1) : ~IsId(t[j])

\* a decodable LABEL entry is followed later by a decodable ID entry
LabelThenId(t) ==
    \E i, j \in 1..Len(t) :
        i < j /\ IsLabel(t[i]) /\ Decodable(t[i]) /\ IsId(t[j]) /\ Decodable(t[j])

\* a search whose template is present
SearchedWith ==
    /\ last.op = "enum_init"
    /\ is_some(last.template)

\* the filter is the text of the first ID entry and the entries after that
\* entry do not matter
FilterIsFirstId(t) ==
    /\ Decodable(t[FirstId(t)])
    /\ last.parsed = Some(Ok(t[FirstId(t)].val))
    /\ last.parsed = Some(find_key_id(Some(SubSeq(t, 1, FirstId(t)))))

\* C9 as claimed: whenever a decodable LABEL entry is followed later by a
\* decodable ID entry, the filter of enum_init is the text of the first ID
\* entry and later entries have no influence.
C9_IdOverridesLabel_AsClaimed ==
    (SearchedWith /\ LabelThenId(unwrap(last.template)))
        => FilterIsFirstId(unwrap(last.template))

\* C9 as amended: the same, for the templates in which every ID or LABEL
\* entry up to and including the first ID entry is decodable.
C9_IdOverridesLabel ==
    LET t == unwrap(last.template)
    IN (SearchedWith /\ LabelThenId(t)
           /\ \A i \in 1..FirstId(t) : (IsId(t[i]) \/ IsLabel(t[i])) => Decodable(t[i]))
        => FilterIsFirstId(t)

\* LABEL, then ID with another text, then an entry that cannot be decoded
C9_Witness ==
    /\ SearchedWith
    /\ LET t == unwrap(last.template)
       IN /\ Len(t) = 3
          /\ IsLabel(t[1]) /\ Decodable(t[1])
          /\ IsId(t[2]) /\ Decodable(t[2]) /\ t[2].val # t[1].val
          /\ IsLabel(t[3]) /\ Undecodable(t[3])
    /\ last.rv = CKR_OK

\* the search failed on the template and left the session without context
RejectedAsInvalid ==
    /\ last.rv = CKR_ARGUMENTS_BAD
    /\ sessions[last.handle].enum_ctx = None
    /\ IsNew(sessions[last.handle])

\* C10 as claimed: a template with an ID or LABEL entry, at any position,
\* whose value is absent or undecodable makes enum_init return ArgumentsInvalid
\* without creating a Search Context.
C10_UndecodableRejected_AsClaimed ==
    (SearchedWith
        /\ \E i \in 1..Len(unwrap(last.template)) :
               LET a == unwrap(last.template)[i]
               IN (IsId(a) \/ IsLabel(a)) /\ Undecodable(a))
        => RejectedAsInvalid

\* C10 as amended: the same, for an ID or LABEL entry that no ID entry
\* precedes.
C10_UndecodableRejected ==
    (SearchedWith
        /\ \E i \in 1..Len(unwrap(last.template)) :
               LET a == unwrap(last.template)[i]
               IN /\ (IsId(a) \/ IsLabel(a)) /\ Undecodable(a)
                  /\ \A j \in 1..(i - 1) : ~IsId(unwrap(last.template)[j]))
        => RejectedAsInvalid

\* an undecodable ID is rejected after a decodable LABEL
C10_Witness ==
    /\ SearchedWith
    /\ LET t == unwrap(last.template)
       IN /\ Len(t) >= 2
          /\ IsLabel(t[1]) /\ Decodable(t[1])
          /\ IsId(t[2]) /\ t[2].val = Some(BadBytes)
    /\ RejectedAsInvalid

\* The objects of a cache under the handles of a set, each found exactly once.
Resolves(db, handles) == \A x \in handles : Cardinality(Db_lookup(db, x)) = 1

\* C11: every object handle a successful enum_init has returned on a session
\* that is still open, in the current Search Context or in one since
\* discarded, resolves to exactly one object of that session's Object Cache,
\* whatever searches ran afterwards.  (As claimed; stated over SpecReturned.)
C11_ReturnedHandlesResolve ==
    \A h \in DOMAIN sessions : Resolves(sessions[h].db, returned[h])

\* The handles of a sequence, as a set, and the handles a cache holds.
HandleSet(handles) == {handles[i] : i \in 1..Len(handles)}

CachedHandles(db) == {Db_enumerate(db)[i].handle : i \in 1..Len(Db_enumerate(db))}

\* C12: a failed enum_init never removes an object from the Object Cache: what
\* was cached before the call is cached after it under the same handle, also
\* when the remote list-keys call itself fails.  (As claimed.)
C12_FailureKeepsCache ==
    [][(StepOf("enum_init") /\ last'.rv # CKR_OK)
        => \A x \in CachedHandles(sessions[last'.handle].db) :
               Db_lookup(sessions'[last'.handle].db, x)
                      = Db_lookup(sessions[last'.handle].db, x)]_vars

\* C13: next_session_handle is greater than every handle create_session has
\* returned, hence greater than every key of the session table, and no
\* operation decreases it.
C13_CounterAboveHandles ==
    /\ [](/\ \A i \in 1..Len(issued) : issued[i] < next_session_handle
          /\ \A h \in DOMAIN sessions : h < next_session_handle)
    /\ [][next_session_handle' >= next_session_handle]_vars

\* the session created last has been deleted and the counter stays above it
C13_Witness ==
    /\ last.op = "delete_session"
    /\ Len(issued) >= 1
    /\ last.handle = issued[Len(issued)]
    /\ is_some(last.removed)
    /\ next_session_handle > last.handle

\* index of the first LABEL entry of a template that has one
FirstLabel(t) ==
    CHOOSE i \in 1..Len(t) : IsLabel(t[i]) /\ \A j \in 1..(i - 1) : ~IsLabel(t[j])

\* C14: for a template with no ID entry and two or more decodable LABEL
\* entries, the filter of enum_init is the text of the first LABEL entry: a
\* later LABEL does not overwrite it.  (As claimed.)
C14_FirstLabelKept ==
    LET t == unwrap(last.template)
    IN (SearchedWith
           /\ (\A i \in 1..Len(t) : ~IsId(t[i]))
           /\ Cardinality({j \in 1..Len(t) : IsLabel(t[j]) /\ Decodable(t[j])}) >= 2)
        => last.parsed = Some(Ok(t[FirstLabel(t)].val))

\* the object the cache holds for a key of the remote list
ObjectOf(key_id) == Object_from_key_data(RemoteRecord(key_id), key_id)

\* the cache holds the objects of keys[1..n], one per entry, and no other
HoldsExactly(db, keys, n) ==
    /\ Len(Db_enumerate(db)) = n
    /\ \A i \in 1..n :
           Cardinality({k \in 1..Len(Db_enumerate(db)) :
                            Db_enumerate(db)[k].object = ObjectOf(keys[i])})
               = Cardinality({k \in 1..n : keys[k] = keys[i]})

\* a search without filter listed the keys and the last fetch it made failed
FullFetchBroken ==
    /\ last.op = "enum_init"
    /\ last.parsed = Some(Ok(None))
    /\ Len(last.calls) >= 2
    /\ last.calls[1].ok
    /\ ~last.calls[Len(last.calls)].ok

\* C15: a search without filter that does a full fetch, the list being k1..kn
\* and the fetch of kj the first to fail, returns DeviceError, creates no
\* Search Context, leaves the completeness flag false and the cache with the
\* objects of k1..k(j-1) and no other, whatever it held before.
C15_PartialFetchLeavesPrefix ==
    FullFetchBroken
        => LET keys == last.calls[1].keys
               j == Len(last.calls) - 1
               self == sessions[last.handle]
           IN /\ last.calls[1].api = "keys_get"
              /\ j <= Len(keys)
              /\ \A i \in 1..j : /\ last.calls[i + 1].api = "keys_key_id_get"
                                 /\ last.calls[i + 1].key_id = Some(keys[i])
                                 /\ last.calls[i + 1].ok = (i < j)
              /\ last.rv = CKR_DEVICE_ERROR
              /\ self.enum_ctx = None
              /\ ~self.fetched_all_keys
              /\ HoldsExactly(self.db, keys, j - 1)

\* the second listed key failed on a cache that held an object before
C15_Witness ==
    /\ FullFetchBroken
    /\ Len(last.calls) = 3
    /\ sessions[last.handle].db.next_handle > 2

\* C16: after a successful search without filter that did a full fetch, the
\* cache holds one object per entry of the remote list and no other, whatever
\* it held before.
C16_FullFetchReplacesCache ==
    FullFetchDone
        => HoldsExactly(sessions[last.handle].db, last.calls[1].keys,
                        Len(last.calls[1].keys))

\* a key was listed and fetched on a cache that held an object before
C16_Witness ==
    /\ FullFetchDone
    /\ Len(last.calls[1].keys) >= 1
    /\ sessions[last.handle].db.next_handle
           > Len(Db_enumerate(sessions[last.handle].db)) + 1

\* the session without the contexts of the other operation classes
WithoutOtherCtx(self) ==
    [self EXCEPT !.sign_ctx = None, !.encrypt_ctx = None, !.decrypt_ctx = None]

\* C18: the search is independent of the other operation classes.  What
\* enum_init returns, calls and does to the cache, the flag and the Search
\* Context is what it does on the same session with no sign, encrypt or
\* decrypt context, and it leaves sign_ctx, encrypt_ctx, decrypt_ctx, the slot
\* id, the flags, the state and the device-error code of the session as they
\* were, whether it succeeds or fails.
C18_SearchIndependent ==
    [][StepOf("enum_init")
        => LET pre == sessions[last'.handle]
               post == sessions'[last'.handle]
           IN /\ post.sign_ctx = pre.sign_ctx
              /\ post.encrypt_ctx = pre.encrypt_ctx
              /\ post.decrypt_ctx = pre.decrypt_ctx
              /\ post.slot_id = pre.slot_id
              /\ post.flags = pre.flags
              /\ post.state = pre.state
              /\ post.device_error = pre.device_error
              /\ \E env \in EnvsOf(is_some(pre.enum_ctx), find_key_id(last'.template)) :
                     LET done == Session_enum_init(WithoutOtherCtx(pre), env, last'.template)
                     IN /\ done.rv = last'.rv
                        /\ done.calls = last'.calls
                        /\ done.self.db = post.db
                        /\ done.self.fetched_all_keys = post.fetched_all_keys
                        /\ done.self.enum_ctx = post.enum_ctx]_vars

\* a search has fetched a key and succeeded with the three other contexts
\* active
C18_Witness ==
    /\ last.op = "enum_init"
    /\ last.rv = CKR_OK
    /\ last.calls # <<>>
    /\ is_some(sessions[last.handle].sign_ctx)
    /\ is_some(sessions[last.handle].encrypt_ctx)
    /\ is_some(sessions[last.handle].decrypt_ctx)

\* C19: sessions are isolated.  enum_init on a session leaves the cache, the
\* completeness flag and the Search Context of every other session, the keys
\* of the session table and the handle counter as they were; create_session
\* adds a session with an empty cache, the flag false and no context, and
\* changes no session that exists.
C19_SessionsIsolated ==
    [][/\ StepOf("enum_init")
           => /\ \A k \in DOMAIN sessions \ {last'.handle} :
                     /\ sessions'[k].db = sessions[k].db
                     /\ sessions'[k].fetched_all_keys = sessions[k].fetched_all_keys
                     /\ sessions'[k].enum_ctx = sessions[k].enum_ctx
              /\ DOMAIN sessions' = DOMAIN sessions
              /\ next_session_handle' = next_session_handle
       /\ StepOf("create_session")
           => /\ last'.handle \notin DOMAIN sessions
              /\ DOMAIN sessions' = DOMAIN sessions \cup {last'.handle}
              /\ Db_enumerate(sessions'[last'.handle].db) = <<>>
              /\ ~sessions'[last'.handle].fetched_all_keys
              /\ sessions'[last'.handle].enum_ctx = None
              /\ sessions'[last'.handle].sign_ctx = None
              /\ sessions'[last'.handle].encrypt_ctx = None
              /\ sessions'[last'.handle].decrypt_ctx = None
              /\ \A k \in DOMAIN sessions : sessions'[k] = sessions[k]]_vars

\* a full fetch on one session beside a session with a context and an object
C19_Witness ==
    /\ last.op = "enum_init"
    /\ last.parsed = Some(Ok(None))
    /\ last.calls # <<>>
    /\ \E k \in DOMAIN sessions \ {last.handle} :
           /\ is_some(sessions[k].enum_ctx)
           /\ Len(Db_enumerate(sessions[k].db)) >= 1

\* C20: every handle of the active Search Context of a session is a handle of
\* an object in the Object Cache of that session.
C20_ContextHandlesCached ==
    \A h \in DOMAIN sessions :
        is_some(sessions[h].enum_ctx)
            => HandleSet(unwrap(sessions[h].enum_ctx).handles)
                   \subseteq CachedHandles(sessions[h].db)

\* a context of two handles has outlived a search that was rejected
C20_Witness ==
    /\ last.op = "enum_init"
    /\ last.rv = CKR_OPERATION_ACTIVE
    /\ Len(unwrap(sessions[last.handle].enum_ctx).handles) = 2

====
